---- MODULE Spec2Model ----
(***************************************************************************)
(* Model of kaggle_service.KaggleService (poller, fetcher, change          *)
(* detector, cache, observers) and of app.LeaderboardHandler.do_GET.       *)
(*                                                                         *)
(* Threads of the program:                                                 *)
(*   - callers of start_monitoring / stop_monitoring / attach / detach,    *)
(*   - the threads created by start_monitoring (_monitor_leaderboards),    *)
(*   - the HTTP request handler (do_GET -> calculate_final_score).         *)
(* Every thread that runs fetch_leaderboard_data owns one fetch context.   *)
(***************************************************************************)
EXTENDS Integers, Sequences, FiniteSets, TLC

VARIABLES
    observers,            \* self._observers: list of listeners
    cached_leaderboards,  \* self._cached_leaderboards: dict competition -> snapshot
    svc_competitions,     \* self._competitions: dict given to start_monitoring
    monitoring,           \* self._monitoring
    monitor_thread,       \* self._monitor_thread: NoThread or a thread id
    competitions,         \* app.py's global `competitions` (weights mapping)
    cpc,                  \* per caller: position inside start_/stop_monitoring
    cthread,              \* per caller: the thread object stop_monitoring is joining
    ctarget,              \* per caller: the loop that was Running when its stop_monitoring call began
    tpc,                  \* per poller thread: position inside _monitor_leaderboards
    titer,                \* per poller thread: the dict its for-loop iterates
    ti,                   \* per poller thread: index of the for-loop
    hpc,                  \* request handler: position inside do_GET
    hi,                   \* request handler: index of calculate_final_score's loop
    all_results,          \* request handler: calculate_final_score's all_results
    hfetched,             \* request handler: what each fetch of this request returned
    final_scores,         \* request handler: what calculate_final_score returned
    response,             \* request handler: the HTTP response of the last request
    fetch,                \* per executing thread: the frame of fetch_leaderboard_data
    dpc, dOld, dNew, dChanges,  \* a stand-alone call of _detect_changes: position, arguments, result
    apc,                  \* stand-alone calls of calculate_final_score: position
    aWeights,             \* the weights mapping of the first call, in its order
    aPermuted,            \* the same mapping in the order of the second call
    aFiles,               \* what each competition's CSV file holds during both calls
    aFinal,               \* result of the first call
    aFinalPermuted        \* result of the second call

vars == <<observers, cached_leaderboards, svc_competitions, monitoring,
          monitor_thread, competitions, cpc, cthread, ctarget, tpc, titer, ti,
          hpc, hi, all_results, hfetched, final_scores, response, fetch,
          dpc, dOld, dNew, dChanges,
          apc, aWeights, aPermuted, aFiles, aFinal, aFinalPermuted>>

svcVars == <<observers, cached_leaderboards, svc_competitions, monitoring,
             monitor_thread, competitions, cpc, cthread, ctarget, tpc, titer, ti,
             hpc, hi, all_results, hfetched, final_scores, response, fetch>>

detectVars == <<dpc, dOld, dNew, dChanges>>

aggVars == <<apc, aWeights, aPermuted, aFiles, aFinal, aFinalPermuted>>

\* what a request holds besides its position
respVars == <<hfetched, final_scores, response>>

-----------------------------------------------------------------------------
(* Bounds of the model *)

\* longest leaderboard a source returns
MaxLen == 2

\* number of threading.Thread objects start_monitoring may create
MaxThreads == 2

-----------------------------------------------------------------------------
(* Values *)

\* self._monitor_thread = None
NoThread == 0

\* None in the old_position / old_score of a new_entry change
NoValue == -1

ThreadIds == 1..MaxThreads

\* the thread serving an HTTP request
Handlers == {-1}

\* threads that run fetch_leaderboard_data
Executors == ThreadIds \cup Handlers

\* threads that call start_monitoring / stop_monitoring
Callers == {"c1", "c2"}

Listeners == {"l1", "l2"}

csv_challenges ==
    {"csv-challenge-1", "csv-challenge-2", "csv-challenge-3",
     "csv-challenge-4", "csv-challenge-5"}

\* weights are hundredths: 100 is 1.0
Configs ==
    { <<[name |-> "api-1", weight |-> 100]>>,
      <<[name |-> "csv-challenge-1", weight |-> 18],
        [name |-> "api-1", weight |-> 50]>> }

ConfigNames == UNION {{c[i].name : i \in DOMAIN c} : c \in Configs}

TeamIds == {1, 2}

\* display name of a team as the source reports it
TeamName(id) == IF id = 1 THEN "x" ELSE "y"

\* the score column of a source (a CSV file's score, Kaggle's own score)
SourceScores == {987}

\* rows as a source returns them, before the positional score is assigned
SourceRows ==
    {[teamId |-> id, teamName |-> TeamName(id), score |-> sc] :
        id \in TeamIds, sc \in SourceScores}

RECURSIVE SeqsUpTo(_, _)
SeqsUpTo(S, n) ==
    IF n = 0 THEN {<<>>}
    ELSE LET shorter == SeqsUpTo(S, n - 1)
         IN  shorter \cup {Append(s, x) : s \in {q \in shorter : Len(q) = n - 1}, x \in S}

\* what a source (the remote API, a CSV file) can hold
SourceData == SeqsUpTo(SourceRows, MaxLen)

-----------------------------------------------------------------------------
(* Pure functions *)

\* calculate_position_points: 36 * exp(-0.2 * position), in thousandths of a
\* point; exp(-0.2) is 0.8187, applied once per position, rounded down
RECURSIVE calculate_position_points(_)
calculate_position_points(position) ==
    IF position = 0 THEN 36 * 1000
    ELSE (calculate_position_points(position - 1) * 8187) \div 10000

\* the score column of the source left as it is
AssignScores_KeepSource(data) ==
    [i \in 1..Len(data) |->
        [teamId   |-> data[i].teamId,
         teamName |-> data[i].teamName,
         score    |-> data[i].score]]

\* df['score'] = df.index.to_series().apply(self.calculate_position_points):
\* the row at index i (0-based) gets the points of position i
AssignScores(data) ==
    [i \in 1..Len(data) |->
        [teamId   |-> data[i].teamId,
         teamName |-> data[i].teamName,
         score    |-> calculate_position_points(i - 1)]]

\* old_df[old_df['teamId'] == team_id]: the (1-based) indexes of the matching rows
OldTeamData(old_df, team_id) ==
    {j \in 1..Len(old_df) : old_df[j].teamId = team_id}

\* old_team_data.index[0] / old_team_data.iloc[0]: the first matching row
FirstMatch(old_df, team_id) ==
    CHOOSE j \in OldTeamData(old_df, team_id) :
        \A k \in OldTeamData(old_df, team_id) : j <= k

\* a new entry reported at its 1-based place
NewEntry_OneBased(row, index) ==
    [teamId       |-> row.teamId,
     teamName     |-> row.teamName,
     change_type  |-> "new_entry",
     old_position |-> NoValue,
     new_position |-> index + 1,
     old_score    |-> NoValue,
     new_score    |-> row.score]

NewEntry(row, index) ==
    [teamId       |-> row.teamId,
     teamName     |-> row.teamName,
     change_type  |-> "new_entry",
     old_position |-> NoValue,
     new_position |-> index,
     old_score    |-> NoValue,
     new_score    |-> row.score]

\* a position change that reports the new place as the old one
PositionChange_NewAsOld(row, index, old_position, old_score) ==
    [teamId       |-> row.teamId,
     teamName     |-> row.teamName,
     change_type  |-> "position_change",
     old_position |-> index,
     new_position |-> index,
     old_score    |-> old_score,
     new_score    |-> row.score]

PositionChange(row, index, old_position, old_score) ==
    [teamId       |-> row.teamId,
     teamName     |-> row.teamName,
     change_type  |-> "position_change",
     old_position |-> old_position,
     new_position |-> index,
     old_score    |-> old_score,
     new_score    |-> row.score]

\* the old position taken 1-based and compared with the 0-based index
RowChanges_OneBased(old_df, new_df, i) ==
    LET row == new_df[i]
        index == i - 1
    IN  IF OldTeamData(old_df, row.teamId) = {}
        THEN <<NewEntry(row, index)>>
        ELSE LET j == FirstMatch(old_df, row.teamId)
                 old_position == j
             IN  IF old_position # index \/ old_df[j].score # row.score
                 THEN <<PositionChange(row, index, old_position, old_df[j].score)>>
                 ELSE <<>>

\* the changes one row of new_df appends (a sequence of length 0 or 1);
\* i is the row's 1-based place, its pandas index is i - 1
RowChanges(old_df, new_df, i) ==
    LET row == new_df[i]
        index == i - 1
    IN  IF OldTeamData(old_df, row.teamId) = {}
        THEN <<NewEntry(row, index)>>
        ELSE LET j == FirstMatch(old_df, row.teamId)
                 old_position == j - 1
             IN  IF old_position # index \/ old_df[j].score # row.score
                 THEN <<PositionChange(row, index, old_position, old_df[j].score)>>
                 ELSE <<>>

RECURSIVE DetectFrom(_, _, _)
DetectFrom(old_df, new_df, i) ==
    IF i > Len(new_df) THEN <<>>
    ELSE RowChanges(old_df, new_df, i) \o DetectFrom(old_df, new_df, i + 1)

\* _detect_changes(old_df, new_df)
detect_changes(old_df, new_df) == DetectFrom(old_df, new_df, 1)

-----------------------------------------------------------------------------
(* fetch_leaderboard_data: one frame per executing thread *)

\* the frame of a thread that is not inside fetch_leaderboard_data
IdleFrame ==
    [pc |-> "idle", comp |-> "", src |-> "", df |-> <<>>, first |-> FALSE,
     old_df |-> <<>>, changes |-> <<>>, idx |-> 0, invoked |-> <<>>,
     raised |-> FALSE, ret |-> <<>>, exc |-> FALSE]

\* `return df`: the frame once the function has returned normally
Return(f, df) == [f EXCEPT !.pc = "ret", !.ret = df, !.exc = FALSE]

\* a handler that logs and raises again
HandleFetchError_Reraise(f) == [f EXCEPT !.pc = "ret", !.ret = <<>>, !.exc = TRUE]

\* except Exception (lines 168-170, 172-174): log, return pd.DataFrame()
HandleFetchError(f) == [f EXCEPT !.pc = "ret", !.ret = <<>>, !.exc = FALSE]

\* except Exception (lines 128-130): log, return pd.DataFrame()
HandleCsvError(f) == [f EXCEPT !.pc = "ret", !.ret = <<>>, !.exc = FALSE]

\* a CSV challenge is cached and announced as an API competition's first
\* leaderboard is
FetchCsv_Cached(f, src, data) ==
    IF src = "error" THEN HandleCsvError(f)
    ELSE IF data = <<>> THEN Return(f, <<>>)
    ELSE [f EXCEPT !.pc = "write", !.df = AssignScores(data), !.first = TRUE]

\* lines 121-127: a CSV challenge; the file holds `data` or cannot be read
FetchCsv(f, src, data) ==
    IF src = "error" THEN HandleCsvError(f)
    ELSE Return(f, AssignScores(data))

\* the cache is written and the listeners are notified after every fetch
\* that obtained rows, whether or not anything changed
FetchApi_AlwaysNotify(f, src, data) ==
    IF src = "error" THEN HandleFetchError(f)
    ELSE IF data = <<>> THEN Return(f, <<>>)
    ELSE LET df == AssignScores(data)
             g  == [f EXCEPT !.df = df]
         IN  IF f.comp \in DOMAIN cached_leaderboards
             THEN LET old_df  == cached_leaderboards[f.comp]
                      changes == detect_changes(old_df, df)
                  IN  [g EXCEPT !.pc = "write", !.old_df = old_df,
                                !.changes = changes]
             ELSE [g EXCEPT !.pc = "write", !.first = TRUE]

\* lines 132-156: the API call, the scores, the read of the cache and the
\* change detection; the write of the cache and the notification follow
FetchApi(f, src, data) ==
    IF src = "error" THEN HandleFetchError(f)
    ELSE IF data = <<>> THEN Return(f, <<>>)
    ELSE LET df == AssignScores(data)
             g  == [f EXCEPT !.df = df]
         IN  IF f.comp \in DOMAIN cached_leaderboards
             THEN LET old_df  == cached_leaderboards[f.comp]
                      changes == detect_changes(old_df, df)
                  IN  IF changes # <<>>
                      THEN [g EXCEPT !.pc = "write", !.old_df = old_df,
                                     !.changes = changes]
                      ELSE Return([g EXCEPT !.old_df = old_df], df)
             ELSE [g EXCEPT !.pc = "write", !.first = TRUE]

\* the call of fetch_leaderboard_data(competition_name) by thread e, up to
\* the read of the cache; the source fails or holds one of `sources`
FetchCall(e, competition_name, sources) ==
    /\ fetch[e].pc = "idle"
    /\ \E src \in {"ok", "error"}, data \in sources \cup {<<>>} :
        /\ src = "error" => data = <<>>
        /\ LET f == [IdleFrame EXCEPT !.comp = competition_name, !.src = src]
           IN  fetch' = [fetch EXCEPT ![e] =
                   IF competition_name \in csv_challenges
                   THEN FetchCsv(f, src, data)
                   ELSE FetchApi(f, src, data)]

\* self._cached_leaderboards[competition_name] = df.copy()
CachePut(cache, competition_name, df) ==
    [k \in DOMAIN cache \cup {competition_name} |->
        IF k = competition_name THEN df ELSE cache[k]]

\* lines 159 and 163: the write of the cache; notify_observers is entered
FetchWrite(e) ==
    /\ fetch[e].pc = "write"
    /\ cached_leaderboards' =
           CachePut(cached_leaderboards, fetch[e].comp, fetch[e].df)
    /\ fetch' = [fetch EXCEPT ![e].pc = "notify", ![e].idx = 1]
    /\ UNCHANGED <<observers, svc_competitions, monitoring, monitor_thread,
                   competitions, cpc, cthread, ctarget, tpc, titer, ti, hpc, hi,
                   all_results, detectVars, aggVars, respVars>>

\* observer.update raised: the exception leaves notify_observers and is
\* caught by fetch_leaderboard_data's handler
NotifyRaised(f) == HandleFetchError([f EXCEPT !.raised = TRUE])

\* notify_observers: one turn of `for observer in self._observers`; the list
\* iterator reads the live list at its own index
FetchNotify(e) ==
    /\ fetch[e].pc = "notify"
    /\ IF fetch[e].idx > Len(observers)
       THEN fetch' = [fetch EXCEPT ![e] = Return(fetch[e], fetch[e].df)]
       ELSE \E raises \in BOOLEAN :
               LET f == [fetch[e] EXCEPT
                            !.invoked = Append(@, observers[fetch[e].idx]),
                            !.idx = @ + 1]
               IN  fetch' = [fetch EXCEPT ![e] =
                               IF raises THEN NotifyRaised(f) ELSE f]
    /\ UNCHANGED <<observers, cached_leaderboards, svc_competitions,
                   monitoring, monitor_thread, competitions, cpc, cthread, ctarget,
                   tpc, titer, ti, hpc, hi, all_results, detectVars, aggVars, respVars>>

-----------------------------------------------------------------------------
(* attach / detach *)

IsMember(seq, x) == \E i \in 1..Len(seq) : seq[i] = x

\* list.remove(x): the list without its first x
Remove(seq, x) ==
    LET i == CHOOSE k \in 1..Len(seq) :
                 seq[k] = x /\ \A j \in 1..(k - 1) : seq[j] # x
    IN  SubSeq(seq, 1, i - 1) \o SubSeq(seq, i + 1, Len(seq))

attach(observer) ==
    /\ ~IsMember(observers, observer)
    /\ observers' = Append(observers, observer)
    /\ UNCHANGED <<cached_leaderboards, svc_competitions, monitoring,
                   monitor_thread, competitions, cpc, cthread, ctarget, tpc, titer,
                   ti, hpc, hi, all_results, fetch, detectVars, aggVars, respVars>>

\* detach of a listener that is not attached raises ValueError and changes nothing
detach(observer) ==
    /\ IsMember(observers, observer)
    /\ observers' = Remove(observers, observer)
    /\ UNCHANGED <<cached_leaderboards, svc_competitions, monitoring,
                   monitor_thread, competitions, cpc, cthread, ctarget, tpc, titer,
                   ti, hpc, hi, all_results, fetch, detectVars, aggVars, respVars>>

-----------------------------------------------------------------------------
(* start_monitoring / stop_monitoring, statement by statement *)

Unborn == {t \in ThreadIds : tpc[t] = "unborn"}

\* a poller thread whose loop has been started and has not terminated
Alive(t) == tpc[t] \in {"check", "iter", "sleep"}

\* the poller is Running: the flag is set and the monitor thread's loop is alive
Running ==
    /\ monitoring
    /\ monitor_thread # NoThread
    /\ Alive(monitor_thread)

\* callers between the entry of start_monitoring and its Thread(...) call
Starting == {c \in Callers : cpc[c] \in {"start_test", "start_set", "start_create"}}

\* line 91: self._competitions = competitions.  A call is modelled only
\* while a thread id is left for it
StartAssign(c) ==
    /\ cpc[c] = "idle"
    /\ Cardinality(Starting) < Cardinality(Unborn)
    /\ \E cfg \in Configs : svc_competitions' = cfg
    /\ cpc' = [cpc EXCEPT ![c] = "start_test"]
    /\ UNCHANGED <<observers, cached_leaderboards, monitoring, monitor_thread,
                   competitions, cthread, ctarget, tpc, titer, ti, hpc, hi,
                   all_results, fetch, detectVars, aggVars, respVars>>

\* line 92: if not self._monitoring
StartTest(c) ==
    /\ cpc[c] = "start_test"
    /\ cpc' = [cpc EXCEPT ![c] = IF monitoring THEN "idle" ELSE "start_set"]
    /\ UNCHANGED <<observers, cached_leaderboards, svc_competitions,
                   monitoring, monitor_thread, competitions, cthread, ctarget, tpc,
                   titer, ti, hpc, hi, all_results, fetch, detectVars, aggVars, respVars>>

\* line 93: self._monitoring = True
StartSet(c) ==
    /\ cpc[c] = "start_set"
    /\ monitoring' = TRUE
    /\ cpc' = [cpc EXCEPT ![c] = "start_create"]
    /\ UNCHANGED <<observers, cached_leaderboards, svc_competitions,
                   monitor_thread, competitions, cthread, ctarget, tpc, titer, ti,
                   hpc, hi, all_results, fetch, detectVars, aggVars, respVars>>

\* lines 94-95: self._monitor_thread = threading.Thread(...)
StartCreate(c) ==
    /\ cpc[c] = "start_create"
    /\ Unborn # {}
    /\ LET t == CHOOSE u \in Unborn : \A v \in Unborn : u <= v
       IN  /\ tpc' = [tpc EXCEPT ![t] = "created"]
           /\ monitor_thread' = t
    /\ cpc' = [cpc EXCEPT ![c] = "start_launch"]
    /\ UNCHANGED <<observers, cached_leaderboards, svc_competitions,
                   monitoring, competitions, cthread, ctarget, titer, ti, hpc, hi,
                   all_results, fetch, detectVars, aggVars, respVars>>

\* line 96: self._monitor_thread.start(); the attribute is read again, and
\* starting a thread that was already started raises RuntimeError
StartLaunch(c) ==
    /\ cpc[c] = "start_launch"
    /\ tpc' = IF tpc[monitor_thread] = "created"
              THEN [tpc EXCEPT ![monitor_thread] = "check"]
              ELSE tpc
    /\ cpc' = [cpc EXCEPT ![c] = "idle"]
    /\ UNCHANGED <<observers, cached_leaderboards, svc_competitions,
                   monitoring, monitor_thread, competitions, cthread, ctarget, titer,
                   ti, hpc, hi, all_results, fetch, detectVars, aggVars, respVars>>

\* line 100: self._monitoring = False
StopClear(c) ==
    /\ cpc[c] = "idle"
    /\ monitoring' = FALSE
    /\ cpc' = [cpc EXCEPT ![c] = "stop_test"]
    /\ ctarget' = [ctarget EXCEPT ![c] =
                      IF Running THEN monitor_thread ELSE NoThread]
    /\ UNCHANGED <<observers, cached_leaderboards, svc_competitions,
                   monitor_thread, competitions, cthread, tpc, titer, ti,
                   hpc, hi, all_results, fetch, detectVars, aggVars, respVars>>

\* lines 101-102: if self._monitor_thread: self._monitor_thread.join() is
\* called; joining a thread that was not started raises RuntimeError
StopTest(c) ==
    /\ cpc[c] = "stop_test"
    /\ IF monitor_thread = NoThread
       THEN cpc' = [cpc EXCEPT ![c] = "idle"] /\ UNCHANGED cthread
       ELSE IF tpc[monitor_thread] = "created"
       THEN cpc' = [cpc EXCEPT ![c] = "stop_raised"] /\ UNCHANGED cthread
       ELSE /\ cpc' = [cpc EXCEPT ![c] = "stop_join"]
            /\ cthread' = [cthread EXCEPT ![c] = monitor_thread]
    /\ UNCHANGED ctarget
    /\ UNCHANGED <<observers, cached_leaderboards, svc_competitions,
                   monitoring, monitor_thread, competitions, tpc, titer, ti,
                   hpc, hi, all_results, fetch, detectVars, aggVars, respVars>>

\* line 102: join() returns once the thread has terminated
StopJoin(c) ==
    /\ cpc[c] = "stop_join"
    /\ tpc[cthread[c]] = "dead"
    /\ cpc' = [cpc EXCEPT ![c] = "idle"]
    /\ cthread' = [cthread EXCEPT ![c] = NoThread]
    /\ UNCHANGED ctarget
    /\ UNCHANGED <<observers, cached_leaderboards, svc_competitions,
                   monitoring, monitor_thread, competitions, tpc, titer, ti,
                   hpc, hi, all_results, fetch, detectVars, aggVars, respVars>>

\* the RuntimeError of join() reaches the caller of stop_monitoring
StopRaise(c) ==
    /\ cpc[c] = "stop_raised"
    /\ cpc' = [cpc EXCEPT ![c] = "idle"]
    /\ UNCHANGED <<observers, cached_leaderboards, svc_competitions,
                   monitoring, monitor_thread, competitions, cthread, ctarget, tpc,
                   titer, ti, hpc, hi, all_results, fetch, detectVars, aggVars, respVars>>

-----------------------------------------------------------------------------
(* _monitor_leaderboards: the loop of a poller thread *)

\* line 106: while self._monitoring; line 107: the for-loop takes the dict
TCheck(t) ==
    /\ tpc[t] = "check"
    /\ IF ~monitoring
       THEN tpc' = [tpc EXCEPT ![t] = "dead"] /\ UNCHANGED <<titer, ti>>
       ELSE /\ titer' = [titer EXCEPT ![t] = svc_competitions]
            /\ ti' = [ti EXCEPT ![t] = 1]
            /\ tpc' = [tpc EXCEPT ![t] =
                          IF svc_competitions = <<>> THEN "sleep" ELSE "iter"]
    /\ UNCHANGED <<observers, cached_leaderboards, svc_competitions,
                   monitoring, monitor_thread, competitions, cpc, cthread, ctarget,
                   hpc, hi, all_results, fetch, detectVars, aggVars, respVars>>

\* line 109: self.fetch_leaderboard_data(competition_name)
TFetchCall(t, sources) ==
    /\ tpc[t] = "iter"
    /\ FetchCall(t, titer[t][ti[t]].name, sources)
    /\ UNCHANGED <<observers, cached_leaderboards, svc_competitions,
                   monitoring, monitor_thread, competitions, cpc, cthread, ctarget,
                   tpc, titer, ti, hpc, hi, all_results, detectVars, aggVars, respVars>>

\* a loop without the try/except of lines 108-111: a failed fetch ends it
TFetchReturn_StopOnFailure(t) ==
    /\ tpc[t] = "iter"
    /\ fetch[t].pc = "ret"
    /\ fetch' = [fetch EXCEPT ![t] = IdleFrame]
    /\ IF fetch[t].src = "error"
       THEN tpc' = [tpc EXCEPT ![t] = "dead"] /\ UNCHANGED ti
       ELSE IF ti[t] < Len(titer[t])
       THEN ti' = [ti EXCEPT ![t] = @ + 1] /\ UNCHANGED tpc
       ELSE tpc' = [tpc EXCEPT ![t] = "sleep"] /\ UNCHANGED ti
    /\ UNCHANGED <<observers, cached_leaderboards, svc_competitions,
                   monitoring, monitor_thread, competitions, cpc, cthread, ctarget,
                   titer, hpc, hi, all_results, detectVars, aggVars, respVars>>

\* lines 108-112: the call has returned (an exception would be logged);
\* next competition, or time.sleep after the last one
TFetchReturn(t) ==
    /\ tpc[t] = "iter"
    /\ fetch[t].pc = "ret"
    /\ fetch' = [fetch EXCEPT ![t] = IdleFrame]
    /\ IF ti[t] < Len(titer[t])
       THEN ti' = [ti EXCEPT ![t] = @ + 1] /\ UNCHANGED tpc
       ELSE tpc' = [tpc EXCEPT ![t] = "sleep"] /\ UNCHANGED ti
    /\ UNCHANGED <<observers, cached_leaderboards, svc_competitions,
                   monitoring, monitor_thread, competitions, cpc, cthread, ctarget,
                   titer, hpc, hi, all_results, detectVars, aggVars, respVars>>

\* line 112: time.sleep(self.refresh_interval) returns
TWake(t) ==
    /\ tpc[t] = "sleep"
    /\ tpc' = [tpc EXCEPT ![t] = "check"]
    /\ UNCHANGED <<observers, cached_leaderboards, svc_competitions,
                   monitoring, monitor_thread, competitions, cpc, cthread, ctarget,
                   titer, ti, hpc, hi, all_results, fetch, detectVars, aggVars, respVars>>

-----------------------------------------------------------------------------
(* calculate_final_score: the arithmetic and the frame operations *)

\* float64 rounds the result of every operation to its 53-bit significand;
\* the model's floats keep three decimal digits and round toward zero
RECURSIVE FRound(_)
FRound(x) == IF x < 1000 THEN x ELSE 10 * FRound(x \div 10)

\* score * weight (score in thousandths, weight in hundredths)
FMul(score, weight) == FRound((score * weight) \div 100)

\* one addition of the running sum
FAdd(a, b) == FRound(a + b)

\* lines 231-235: the rows one competition adds to all_results
WeightedRows(df, competition, weight) ==
    [i \in 1..Len(df) |->
        [teamName        |-> df[i].teamName,
         weighted_points |-> FMul(df[i].score, weight),
         competition     |-> competition]]

\* a competition without rows discards what the others have contributed
Collected_DropOnFailure(results, f, competition, weight) ==
    IF ~f.exc /\ f.ret # <<>>
    THEN results \o WeightedRows(f.ret, competition, weight)
    ELSE <<>>

\* lines 228-238: all_results after one turn of the loop, f being the frame
\* of the fetch that has returned: a non-empty frame is weighted and
\* appended; an empty one adds nothing, an exception is logged
Collected(results, f, competition, weight) ==
    IF ~f.exc /\ f.ret # <<>>
    THEN results \o WeightedRows(f.ret, competition, weight)
    ELSE results

\* the team names in the order in which pandas sorts them
SortedNames == <<"x", "y">>

NameKey(name) == CHOOSE i \in 1..Len(SortedNames) : SortedNames[i] = name

\* ['weighted_points'].sum() of one group: the rows of the concatenated
\* frame are added in their order
RECURSIVE GroupSumFrom(_, _, _, _)
GroupSumFrom(rows, name, i, acc) ==
    IF i > Len(rows) THEN acc
    ELSE GroupSumFrom(rows, name, i + 1,
                      IF rows[i].teamName = name
                      THEN FAdd(acc, rows[i].weighted_points)
                      ELSE acc)

GroupSum(rows, name) == GroupSumFrom(rows, name, 1, 0)

RECURSIVE SortKeys(_)
SortKeys(keys) ==
    IF keys = {} THEN <<>>
    ELSE LET m == CHOOSE n \in keys : \A o \in keys : NameKey(n) <= NameKey(o)
         IN  <<m>> \o SortKeys(keys \ {m})

\* the place of a team's first row in the concatenated frame
FirstRow(rows, name) ==
    CHOOSE i \in 1..Len(rows) :
        rows[i].teamName = name /\ \A j \in 1..(i - 1) : rows[j].teamName # name

RECURSIVE KeysByFirstRow(_, _)
KeysByFirstRow(rows, keys) ==
    IF keys = {} THEN <<>>
    ELSE LET m == CHOOSE n \in keys :
                     \A o \in keys : FirstRow(rows, n) <= FirstRow(rows, o)
         IN  <<m>> \o KeysByFirstRow(rows, keys \ {m})

\* groupby(..., sort=False): the groups in the order of their first rows
groupby_Unsorted(rows) ==
    LET keys == KeysByFirstRow(rows, {rows[i].teamName : i \in 1..Len(rows)})
    IN  [k \in 1..Len(keys) |->
            [teamName |-> keys[k], weighted_points |-> GroupSum(rows, keys[k])]]

\* line 244: groupby(['teamName'], as_index=False)['weighted_points'].sum();
\* groupby sorts the group keys (sort=True is its default)
groupby(rows) ==
    LET keys == SortKeys({rows[i].teamName : i \in 1..Len(rows)})
    IN  [k \in 1..Len(keys) |->
            [teamName |-> keys[k], weighted_points |-> GroupSum(rows, keys[k])]]

Perms(n) == {p \in [1..n -> 1..n] : \A i, j \in 1..n : p[i] = p[j] => i = j}

\* line 245: sort_values(by='weighted_points', ascending=False).  The
\* default kind is quicksort, which is not stable: rows of equal
\* weighted_points come out in an order the build decides, so the frames
\* the call can return are all the descending arrangements
sort_values(grouped) ==
    {[k \in 1..Len(grouped) |-> grouped[p[k]]] :
        p \in {q \in Perms(Len(grouped)) :
                 \A k \in 1..(Len(grouped) - 1) :
                     grouped[q[k]].weighted_points >= grouped[q[k + 1]].weighted_points}}

\* the rank taken as the index itself
WithRank_ZeroBased(sorted) ==
    [k \in 1..Len(sorted) |->
        [teamName        |-> sorted[k].teamName,
         weighted_points |-> sorted[k].weighted_points,
         rank            |-> k - 1]]

\* line 246: final_results['rank'] = final_results.index + 1
WithRank(sorted) ==
    [k \in 1..Len(sorted) |->
        [teamName        |-> sorted[k].teamName,
         weighted_points |-> sorted[k].weighted_points,
         rank            |-> k]]

\* without the test of lines 240-241, pd.concat([]) raises ValueError
FinalResults_NoEmptyTest(rows) ==
    IF rows = <<>> THEN {<<[teamName |-> "ValueError", weighted_points |-> 0, rank |-> 0]>>}
    ELSE {WithRank(sorted) : sorted \in sort_values(groupby(rows))}

\* lines 240-248: the frames calculate_final_score can return for the rows
\* collected in all_results; <<>> is the empty pd.DataFrame()
FinalResults(rows) ==
    IF rows = <<>> THEN {<<>>}
    ELSE {WithRank(sorted) : sorted \in sort_values(groupby(rows))}

-----------------------------------------------------------------------------
(* LeaderboardHandler.do_GET for /api/leaderboard -> calculate_final_score *)

\* no response has been written
NoResponse == [status |-> 0]

\* app.py line 82: send_response(200) precedes everything else; line 95 ->
\* kaggle_service.py lines 225-227: the request enters
\* calculate_final_score(competitions)
HGet(h) ==
    /\ hpc[h] = "idle"
    /\ hpc' = [hpc EXCEPT ![h] = IF competitions = <<>> THEN "final" ELSE "agg"]
    /\ hi' = [hi EXCEPT ![h] = 1]
    /\ all_results' = [all_results EXCEPT ![h] = <<>>]
    /\ hfetched' = [hfetched EXCEPT ![h] = <<>>]
    /\ final_scores' = [final_scores EXCEPT ![h] = <<>>]
    /\ response' = [response EXCEPT ![h] = NoResponse]
    /\ UNCHANGED <<observers, cached_leaderboards, svc_competitions,
                   monitoring, monitor_thread, competitions, cpc, cthread, ctarget,
                   tpc, titer, ti, fetch, detectVars, aggVars>>

\* line 229: df = self.fetch_leaderboard_data(competition)
HFetchCall(h, sources) ==
    /\ hpc[h] = "agg"
    /\ FetchCall(h, competitions[hi[h]].name, sources)
    /\ UNCHANGED <<observers, cached_leaderboards, svc_competitions,
                   monitoring, monitor_thread, competitions, cpc, cthread, ctarget,
                   tpc, titer, ti, hpc, hi, all_results, detectVars, aggVars,
                   respVars>>

\* lines 228-238: the call has returned; a non-empty frame is weighted and
\* appended, an exception is logged; next competition
HFetchReturn(h) ==
    /\ hpc[h] = "agg"
    /\ fetch[h].pc = "ret"
    /\ all_results' = [all_results EXCEPT ![h] =
           Collected(@, fetch[h], competitions[hi[h]].name,
                     competitions[hi[h]].weight)]
    /\ hfetched' = [hfetched EXCEPT ![h] =
           Append(@, [name   |-> competitions[hi[h]].name,
                      weight |-> competitions[hi[h]].weight,
                      src    |-> fetch[h].src,
                      exc    |-> fetch[h].exc,
                      ret    |-> fetch[h].ret])]
    /\ fetch' = [fetch EXCEPT ![h] = IdleFrame]
    /\ IF hi[h] < Len(competitions)
       THEN hi' = [hi EXCEPT ![h] = @ + 1] /\ UNCHANGED hpc
       ELSE hpc' = [hpc EXCEPT ![h] = "final"] /\ UNCHANGED hi
    /\ UNCHANGED <<observers, cached_leaderboards, svc_competitions,
                   monitoring, monitor_thread, competitions, cpc, cthread, ctarget,
                   tpc, titer, ti, final_scores, response, detectVars, aggVars>>

\* lines 240-248: calculate_final_score returns
HFinalScore(h) ==
    /\ hpc[h] = "final"
    /\ \E final_results \in FinalResults(all_results[h]) :
          final_scores' = [final_scores EXCEPT ![h] = final_results]
    /\ hpc' = [hpc EXCEPT ![h] = "respond"]
    /\ UNCHANGED <<observers, cached_leaderboards, svc_competitions,
                   monitoring, monitor_thread, competitions, cpc, cthread, ctarget,
                   tpc, titer, ti, hi, all_results, hfetched, response, fetch,
                   detectVars, aggVars>>

\* app.py lines 106-114: a CSV challenge's score of a team; position is the
\* team's first index in the file as it is read now, NoValue when the file
\* is missing or does not list the team (an unreadable file is logged and
\* gives 0.0 too, lines 124-126)
CsvScore(position, weight) ==
    IF position = NoValue THEN 0
    ELSE FMul(calculate_position_points(position), weight)

\* app.py lines 117-122: a Kaggle competition's score of a team, from the
\* first row of the cached frame with the team's name
CachedScore(competition, weight, teamName) ==
    IF competition \in DOMAIN cached_leaderboards
    THEN LET comp_data == cached_leaderboards[competition]
             team_row == {i \in 1..Len(comp_data) : comp_data[i].teamName = teamName}
         IN  IF team_row = {} THEN 0
             ELSE LET first == CHOOSE i \in team_row : \A j \in team_row : i <= j
                  IN  FMul(comp_data[first].score, weight)
    ELSE 0

\* app.py lines 102-134: the entry of one row of final_scores; csv_position
\* gives, per competition, the position read from its CSV file
ResultEntry(row, csv_position) ==
    [rank   |-> row.rank,
     team   |-> row.teamName,
     scores |-> [c \in 1..Len(competitions) |->
                    IF competitions[c].name \in csv_challenges
                    THEN CsvScore(csv_position[c], competitions[c].weight)
                    ELSE CachedScore(competitions[c].name, competitions[c].weight,
                                     row.teamName)],
     total  |-> row.weighted_points]

\* an error object in place of the empty list
ResponseBody_ErrorWhenEmpty(final_results, csv_positions) ==
    IF final_results = <<>>
    THEN [error |-> "no data"]
    ELSE [data |-> [r \in 1..Len(final_results) |->
                       ResultEntry(final_results[r], csv_positions[r])],
          competitions |-> [c \in 1..Len(competitions) |-> competitions[c].name]]

\* app.py lines 97-139: {"data": []} when final_scores is empty, else the
\* entries and the competitions' names
ResponseBody(final_results, csv_positions) ==
    IF final_results = <<>>
    THEN [data |-> <<>>]
    ELSE [data |-> [r \in 1..Len(final_results) |->
                       ResultEntry(final_results[r], csv_positions[r])],
          competitions |-> [c \in 1..Len(competitions) |-> competitions[c].name]]

\* app.py lines 82-141: status 200 was sent first; the body is written and
\* the request is over
HRespond(h) ==
    /\ hpc[h] = "respond"
    /\ \E csv_positions \in
           [1..Len(final_scores[h]) ->
               [1..Len(competitions) -> {NoValue} \cup 0..(MaxLen - 1)]] :
          response' = [response EXCEPT ![h] =
              [status |-> 200,
               body   |-> ResponseBody(final_scores[h], csv_positions)]]
    /\ hpc' = [hpc EXCEPT ![h] = "idle"]
    /\ all_results' = [all_results EXCEPT ![h] = <<>>]
    /\ UNCHANGED <<observers, cached_leaderboards, svc_competitions,
                   monitoring, monitor_thread, competitions, cpc, cthread, ctarget,
                   tpc, titer, ti, hi, hfetched, final_scores, fetch,
                   detectVars, aggVars>>

-----------------------------------------------------------------------------
(* The program.  Next is every step of every thread; the specifications    *)
(* PollerSpec, FetchSpec and DetectSpec below each let a part of the       *)
(* program run against a fixed rest, which keeps their state spaces        *)
(* within reach of exhaustive search; Spec itself is not.                  *)

\* KaggleService.__init__ (lines 79-84) and app.py's configuration
Init ==
    /\ observers = <<>>
    /\ cached_leaderboards = <<>>
    /\ svc_competitions = <<>>
    /\ monitoring = FALSE
    /\ monitor_thread = NoThread
    /\ competitions \in Configs
    /\ cpc = [c \in Callers |-> "idle"]
    /\ cthread = [c \in Callers |-> NoThread]
    /\ ctarget = [c \in Callers |-> NoThread]
    /\ tpc = [t \in ThreadIds |-> "unborn"]
    /\ titer = [t \in ThreadIds |-> <<>>]
    /\ ti = [t \in ThreadIds |-> 1]
    /\ hpc = [h \in Handlers |-> "idle"]
    /\ hi = [h \in Handlers |-> 1]
    /\ all_results = [h \in Handlers |-> <<>>]
    /\ hfetched = [h \in Handlers |-> <<>>]
    /\ final_scores = [h \in Handlers |-> <<>>]
    /\ response = [h \in Handlers |-> NoResponse]
    /\ fetch = [e \in Executors |-> IdleFrame]
    /\ dpc = "none"
    /\ dOld = <<>>
    /\ dNew = <<>>
    /\ dChanges = <<>>
    /\ apc = "none"
    /\ aWeights = <<>>
    /\ aPermuted = <<>>
    /\ aFiles = <<>>
    /\ aFinal = <<>>
    /\ aFinalPermuted = <<>>

Next ==
    \/ \E l \in Listeners : attach(l)
    \/ \E l \in Listeners : detach(l)
    \/ \E c \in Callers : StartAssign(c)
    \/ \E c \in Callers : StartTest(c)
    \/ \E c \in Callers : StartSet(c)
    \/ \E c \in Callers : StartCreate(c)
    \/ \E c \in Callers : StartLaunch(c)
    \/ \E c \in Callers : StopClear(c)
    \/ \E c \in Callers : StopTest(c)
    \/ \E c \in Callers : StopJoin(c)
    \/ \E c \in Callers : StopRaise(c)
    \/ \E t \in ThreadIds : TCheck(t)
    \/ \E t \in ThreadIds : TFetchCall(t, SourceData)
    \/ \E t \in ThreadIds : TFetchReturn(t)
    \/ \E t \in ThreadIds : TWake(t)
    \/ \E e \in Executors : FetchWrite(e)
    \/ \E e \in Executors : FetchNotify(e)
    \/ \E h \in Handlers : HGet(h)
    \/ \E h \in Handlers : HFetchCall(h, SourceData)
    \/ \E h \in Handlers : HFetchReturn(h)
    \/ \E h \in Handlers : HFinalScore(h)
    \/ \E h \in Handlers : HRespond(h)

Spec == Init /\ [][Next]_vars

-----------------------------------------------------------------------------
(* The poller's life cycle: every interleaving of start_monitoring and     *)
(* stop_monitoring calls by all callers and of the threads they create;    *)
(* no listener is attached, no request is served and a source that         *)
(* answers always holds the same leaderboard.  Every step is a step of     *)
(* Next.                                                                   *)

PollerSources == {<<r>> : r \in {q \in SourceRows : q.teamId = 1}}

PollerNext ==
    \/ \E c \in Callers : StartAssign(c)
    \/ \E c \in Callers : StartTest(c)
    \/ \E c \in Callers : StartSet(c)
    \/ \E c \in Callers : StartCreate(c)
    \/ \E c \in Callers : StartLaunch(c)
    \/ \E c \in Callers : StopClear(c)
    \/ \E c \in Callers : StopTest(c)
    \/ \E c \in Callers : StopJoin(c)
    \/ \E c \in Callers : StopRaise(c)
    \/ \E t \in ThreadIds : TCheck(t)
    \/ \E t \in ThreadIds : TFetchCall(t, PollerSources)
    \/ \E t \in ThreadIds : TFetchReturn(t)
    \/ \E t \in ThreadIds : TWake(t)
    \/ \E t \in ThreadIds : FetchWrite(t)
    \/ \E t \in ThreadIds : FetchNotify(t)

PollerSpec == Init /\ [][PollerNext]_vars

-----------------------------------------------------------------------------
(* The polling cycle: as the poller's life cycle above, with one caller    *)
(* that starts and stops the poller and a second one that only starts it.  *)
(* Every step is a step of PollerNext.                                     *)

CycleNext ==
    \/ \E c \in Callers : StartAssign(c)
    \/ \E c \in Callers : StartTest(c)
    \/ \E c \in Callers : StartSet(c)
    \/ \E c \in Callers : StartCreate(c)
    \/ \E c \in Callers : StartLaunch(c)
    \/ StopClear("c1")
    \/ StopTest("c1")
    \/ StopJoin("c1")
    \/ StopRaise("c1")
    \/ \E t \in ThreadIds : TCheck(t)
    \/ \E t \in ThreadIds : TFetchCall(t, PollerSources)
    \/ \E t \in ThreadIds : TFetchReturn(t)
    \/ \E t \in ThreadIds : TWake(t)
    \/ \E t \in ThreadIds : FetchWrite(t)
    \/ \E t \in ThreadIds : FetchNotify(t)

CycleSpec == Init /\ [][CycleNext]_vars

-----------------------------------------------------------------------------
(* Fetching: requests are served while no poller runs, so every fetch is   *)
(* made by the request handler, from sources holding any leaderboard,      *)
(* while listeners are attached and detached at any time.  Every step is   *)
(* a step of Next.                                                         *)

FetchNext ==
    \/ \E l \in Listeners : attach(l)
    \/ \E l \in Listeners : detach(l)
    \/ \E h \in Handlers : FetchWrite(h)
    \/ \E h \in Handlers : FetchNotify(h)
    \/ \E h \in Handlers : HGet(h)
    \/ \E h \in Handlers : HFetchCall(h, SourceData)
    \/ \E h \in Handlers : HFetchReturn(h)
    \/ \E h \in Handlers : HFinalScore(h)
    \/ \E h \in Handlers : HRespond(h)

FetchSpec == Init /\ [][FetchNext]_vars

-----------------------------------------------------------------------------
(* The poller and the request handler together: one start_monitoring call  *)
(* starts the loop, requests are served while it polls, a listener may be  *)
(* attached; the sources hold one-row leaderboards.  Every step is a step  *)
(* of Next.                                                                *)

RaceSources == {<<r>> : r \in SourceRows}

RaceNext ==
    \/ attach("l1")
    \/ StartAssign("c1")
    \/ StartTest("c1")
    \/ StartSet("c1")
    \/ StartCreate("c1")
    \/ StartLaunch("c1")
    \/ \E t \in ThreadIds : TCheck(t)
    \/ \E t \in ThreadIds : TFetchCall(t, RaceSources)
    \/ \E t \in ThreadIds : TFetchReturn(t)
    \/ \E t \in ThreadIds : TWake(t)
    \/ \E e \in Executors : FetchWrite(e)
    \/ \E e \in Executors : FetchNotify(e)
    \/ \E h \in Handlers : HGet(h)
    \/ \E h \in Handlers : HFetchCall(h, RaceSources)
    \/ \E h \in Handlers : HFetchReturn(h)
    \/ \E h \in Handlers : HFinalScore(h)
    \/ \E h \in Handlers : HRespond(h)

RaceSpec == Init /\ [][RaceNext]_vars

-----------------------------------------------------------------------------
(* _detect_changes as a function: applied once to any two frames *)

\* scores a frame can carry
DetectScores == {calculate_position_points(p) : p \in 0..(MaxLen - 1)}

DetectRows ==
    {[teamId |-> id, teamName |-> TeamName(id), score |-> sc] :
        id \in TeamIds, sc \in DetectScores}

DetectFrames == SeqsUpTo(DetectRows, MaxLen)

DetectInit ==
    /\ observers = <<>>
    /\ cached_leaderboards = <<>>
    /\ svc_competitions = <<>>
    /\ monitoring = FALSE
    /\ monitor_thread = NoThread
    /\ competitions = <<>>
    /\ cpc = [c \in Callers |-> "idle"]
    /\ cthread = [c \in Callers |-> NoThread]
    /\ ctarget = [c \in Callers |-> NoThread]
    /\ tpc = [t \in ThreadIds |-> "unborn"]
    /\ titer = [t \in ThreadIds |-> <<>>]
    /\ ti = [t \in ThreadIds |-> 1]
    /\ hpc = [h \in Handlers |-> "idle"]
    /\ hi = [h \in Handlers |-> 1]
    /\ all_results = [h \in Handlers |-> <<>>]
    /\ hfetched = [h \in Handlers |-> <<>>]
    /\ final_scores = [h \in Handlers |-> <<>>]
    /\ response = [h \in Handlers |-> NoResponse]
    /\ fetch = [e \in Executors |-> IdleFrame]
    /\ dpc = "call"
    /\ dOld \in DetectFrames
    /\ dNew \in DetectFrames
    /\ dChanges = <<>>
    /\ apc = "none"
    /\ aWeights = <<>>
    /\ aPermuted = <<>>
    /\ aFiles = <<>>
    /\ aFinal = <<>>
    /\ aFinalPermuted = <<>>

\* changes = self._detect_changes(old_df, new_df)
DetectApply ==
    /\ dpc = "call"
    /\ dChanges' = detect_changes(dOld, dNew)
    /\ dpc' = "done"
    /\ UNCHANGED <<dOld, dNew, svcVars, aggVars>>

DetectNext == DetectApply

DetectSpec == DetectInit /\ [][DetectNext]_vars

-----------------------------------------------------------------------------
(* calculate_final_score as a function of the weights mapping and of the   *)
(* CSV files (app.py configures CSV challenges only, whose fetch touches   *)
(* neither the cache nor the listeners): called twice over the same        *)
(* files, with the mapping in two orders                                   *)

\* three of app.py's competitions, with their weights in hundredths
app_competitions ==
    <<[name |-> "csv-challenge-1", weight |-> 18],
      [name |-> "csv-challenge-2", weight |-> 18],
      [name |-> "csv-challenge-5", weight |-> 30]>>

AggNames == {app_competitions[i].name : i \in DOMAIN app_competitions}

\* the weights mappings: any of these competitions, each once, in any order
Mappings ==
    {m \in SeqsUpTo({app_competitions[i] : i \in DOMAIN app_competitions},
                    Len(app_competitions)) :
        \A i, j \in 1..Len(m) : m[i] = m[j] => i = j}

Entries(m) == {m[i] : i \in 1..Len(m)}

\* a CSV file: unreadable, or holding a leaderboard
FileStates ==
    {[src |-> "error", data |-> <<>>]} \cup
    {[src |-> "ok", data |-> d] : d \in SourceData}

\* lines 227-238 for CSV challenges: all_results after the loop, which is
\* at the i-th competition and has collected `results`
RECURSIVE CollectFrom(_, _, _, _)
CollectFrom(weights, files, i, results) ==
    IF i > Len(weights) THEN results
    ELSE LET competition == weights[i].name
             f == FetchCsv([IdleFrame EXCEPT !.comp = competition,
                                             !.src = files[competition].src],
                           files[competition].src, files[competition].data)
         IN  CollectFrom(weights, files, i + 1,
                         Collected(results, f, competition, weights[i].weight))

\* all_results of calculate_final_score(weights)
Collect(weights, files) == CollectFrom(weights, files, 1, <<>>)

AggInit ==
    /\ observers = <<>>
    /\ cached_leaderboards = <<>>
    /\ svc_competitions = <<>>
    /\ monitoring = FALSE
    /\ monitor_thread = NoThread
    /\ competitions = <<>>
    /\ cpc = [c \in Callers |-> "idle"]
    /\ cthread = [c \in Callers |-> NoThread]
    /\ ctarget = [c \in Callers |-> NoThread]
    /\ tpc = [t \in ThreadIds |-> "unborn"]
    /\ titer = [t \in ThreadIds |-> <<>>]
    /\ ti = [t \in ThreadIds |-> 1]
    /\ hpc = [h \in Handlers |-> "idle"]
    /\ hi = [h \in Handlers |-> 1]
    /\ all_results = [h \in Handlers |-> <<>>]
    /\ hfetched = [h \in Handlers |-> <<>>]
    /\ final_scores = [h \in Handlers |-> <<>>]
    /\ response = [h \in Handlers |-> NoResponse]
    /\ fetch = [e \in Executors |-> IdleFrame]
    /\ dpc = "none"
    /\ dOld = <<>>
    /\ dNew = <<>>
    /\ dChanges = <<>>
    /\ apc = "call"
    /\ aWeights \in Mappings
    /\ aPermuted \in {m \in Mappings : Entries(m) = Entries(aWeights)}
    /\ aFiles \in {files \in [AggNames -> FileStates] :
                     \A n \in AggNames :
                         (\A i \in 1..Len(aWeights) : aWeights[i].name # n)
                             => files[n].src = "error"}
    /\ aFinal = <<>>
    /\ aFinalPermuted = <<>>

\* final = calculate_final_score(weights)
AggApply ==
    /\ apc = "call"
    /\ aFinal' \in FinalResults(Collect(aWeights, aFiles))
    /\ apc' = "again"
    /\ UNCHANGED <<aWeights, aPermuted, aFiles, aFinalPermuted, svcVars, detectVars>>

\* the same call with the mapping in the other order; sort_values is a
\* function, so the same grouped frame comes out sorted the same way
AggApplyPermuted ==
    /\ apc = "again"
    /\ aFinalPermuted' \in
          {r \in FinalResults(Collect(aPermuted, aFiles)) :
              groupby(Collect(aPermuted, aFiles))
                    = groupby(Collect(aWeights, aFiles))
                  => r = aFinal}
    /\ apc' = "done"
    /\ UNCHANGED <<aWeights, aPermuted, aFiles, aFinal, svcVars, detectVars>>

AggNext == AggApply \/ AggApplyPermuted

AggSpec == AggInit /\ [][AggNext]_vars

-----------------------------------------------------------------------------
(* Claims *)

\* C1: when a fetch of an API-backed competition that obtained a non-empty
\* snapshot returns, the cache entry of that competition is that snapshot,
\* whether or not a change was detected
C1_CacheEqualsFetched ==
    \A e \in Executors :
        (fetch[e].pc = "ret" /\ fetch[e].df # <<>>) =>
            /\ fetch[e].comp \in DOMAIN cached_leaderboards
            /\ cached_leaderboards[fetch[e].comp] = fetch[e].df

\* C2: under any interleaving of start and stop calls, at most one polling
\* loop is alive
C2_AtMostOneLoop ==
    Cardinality({t \in ThreadIds : Alive(t)}) <= 1

\* C3: a start call that begins while the poller is Running leaves the
\* poller's state unchanged, the polled competitions included
C3_StartWhileRunningNoOp ==
    [][\A c \in Callers :
          (Running /\ cpc[c] = "idle" /\ cpc'[c] = "start_test") =>
              UNCHANGED <<svc_competitions, monitoring, monitor_thread, tpc>>]_vars

\* C4: once stop has been called on a Running poller, the loop begins no
\* new polling iteration (its next test of the flag ends it), and the stop
\* call returns only after the loop has terminated
C4_StopEndsLoop ==
    [][\A c \in Callers :
          (cpc[c] \in {"stop_test", "stop_join"} /\ ctarget[c] # NoThread) =>
              /\ tpc[ctarget[c]] = "check" => tpc'[ctarget[c]] \in {"check", "dead"}
              /\ cpc'[c] \in {"idle", "stop_raised"} => tpc[ctarget[c]] = "dead"]_vars

\* C5: the request handler never adds or replaces a cache entry
C5_HandlerNeverWritesCache ==
    [][\A h \in Handlers :
          (fetch[h].pc = "write" /\ fetch'[h].pc # "write") =>
              cached_leaderboards' = cached_leaderboards]_vars

\* C6: when a listener has raised, the exception has not left notify (the
\* fetch still returns its snapshot), every subscribed listener has been
\* invoked, and the cache holds the fetched snapshot
C6_ListenerFailureIsolated ==
    \A e \in Executors :
        (fetch[e].pc = "ret" /\ fetch[e].raised) =>
            /\ fetch[e].ret = fetch[e].df
            /\ fetch[e].invoked = observers
            /\ cached_leaderboards[fetch[e].comp] = fetch[e].df

\* C7: when a notification ends, the listeners it invoked are exactly the
\* subscribed listeners, each once, in subscription order
C7_EveryListenerOnceInOrder ==
    [][\A e \in Executors :
          (fetch[e].pc = "notify" /\ fetch'[e].pc = "ret") =>
              fetch'[e].invoked = observers]_vars

\* C8: fetch never raises to its caller, and when the source failed (CSV
\* or API) it returns the empty snapshot
C8_FetchNeverRaises ==
    \A e \in Executors :
        fetch[e].pc = "ret" =>
            /\ ~fetch[e].exc
            /\ fetch[e].src = "error" => fetch[e].ret = <<>>

\* C8 witness: a fetch of an API-backed competition whose source failed has
\* returned
C8_Witness ==
    \E e \in Executors :
        /\ fetch[e].pc = "ret"
        /\ fetch[e].src = "error"
        /\ fetch[e].comp \notin csv_challenges

\* no two rows of the frame carry the same teamId
UniqueTeamIds(df) ==
    \A i, j \in 1..Len(df) : df[i].teamId = df[j].teamId => i = j

C11_Absent(old, new, i) ==
    \A j \in 1..Len(old) : old[j].teamId # new[i].teamId

\* the first row of old with the teamId of new's row i is at place j
C11_LookedUp(old, new, i, j) ==
    /\ j \in 1..Len(old)
    /\ old[j].teamId = new[i].teamId
    /\ \A k \in 1..(j - 1) : old[k].teamId # new[i].teamId

\* the row at place i of new is one for which a change is due
C11_Emits(old, new, i) ==
    \/ C11_Absent(old, new, i)
    \/ \E j \in 1..Len(old) :
          /\ C11_LookedUp(old, new, i, j)
          /\ (j # i \/ old[j].score # new[i].score)

\* the place in new of the row the k-th change is about
C11_RowOf(old, new, k) ==
    CHOOSE i \in 1..Len(new) :
        /\ C11_Emits(old, new, i)
        /\ Cardinality({m \in 1..(i - 1) : C11_Emits(old, new, m)}) = k - 1

\* C11: detect emits one change for each row of new that is absent from
\* old (a new_entry) or whose looked-up old row has another index or another
\* score (a position_change carrying old and new position and score), and
\* nothing else: no change for a row with equal index and score, and none
\* for a team of old that is absent from new
C11_DetectPerRow ==
    dpc = "done" =>
        /\ Len(dChanges) = Cardinality({i \in 1..Len(dNew) : C11_Emits(dOld, dNew, i)})
        /\ \A k \in 1..Len(dChanges) :
              LET i  == C11_RowOf(dOld, dNew, k)
                  ch == dChanges[k]
              IN  /\ ch.teamId = dNew[i].teamId
                  /\ ch.teamName = dNew[i].teamName
                  /\ ch.new_position = i - 1
                  /\ ch.new_score = dNew[i].score
                  /\ IF C11_Absent(dOld, dNew, i)
                     THEN /\ ch.change_type = "new_entry"
                          /\ ch.old_position = NoValue
                          /\ ch.old_score = NoValue
                     ELSE \E j \in 1..Len(dOld) :
                             /\ C11_LookedUp(dOld, dNew, i, j)
                             /\ ch.change_type = "position_change"
                             /\ ch.old_position = j - 1
                             /\ ch.old_score = dOld[j].score

\* C11 witness: a comparison that reported a position_change for one team
\* while a team of old is absent from new
C11_Witness ==
    /\ dpc = "done"
    /\ \E k \in 1..Len(dChanges) : dChanges[k].change_type = "position_change"
    /\ \E j \in 1..Len(dOld) : \A i \in 1..Len(dNew) : dNew[i].teamId # dOld[j].teamId
    /\ dNew # <<>>


C12_RowsOf(rows, name) ==
    Cardinality({i \in 1..Len(rows) : rows[i].teamName = name})

RECURSIVE C13_FrameTotal(_, _, _, _, _)
C13_FrameTotal(df, weight, name, i, acc) ==
    IF i > Len(df) THEN acc
    ELSE C13_FrameTotal(df, weight, name, i + 1,
                        IF df[i].teamName = name
                        THEN FAdd(acc, FMul(df[i].score, weight))
                        ELSE acc)

\* a team's total over the competitions whose fetch returned a snapshot
RECURSIVE C13_Total(_, _, _, _)
C13_Total(fetched, name, k, acc) ==
    IF k > Len(fetched) THEN acc
    ELSE C13_Total(fetched, name, k + 1,
                   C13_FrameTotal(fetched[k].ret, fetched[k].weight, name, 1, acc))

\* the fetch of the k-th competition failed: its source failed, or it
\* returned no snapshot for another reason
C13_Failed(fetched, k) == fetched[k].src = "error" \/ fetched[k].ret = <<>>

\* C13: when calculate_final_score has returned, whichever fetches failed,
\* a failed competition has contributed no row, the teams ranked are those
\* of the snapshots fetched, and each team's total is the sum of
\* weight x score over the competitions whose fetch succeeded
C13_FailureIsolated ==
    \A h \in Handlers :
        hpc[h] = "respond" =>
            /\ Len(hfetched[h]) = Len(competitions)
            /\ \A k \in 1..Len(hfetched[h]) :
                  C13_Failed(hfetched[h], k) =>
                      \A i \in 1..Len(all_results[h]) :
                          all_results[h][i].competition # hfetched[h][k].name
            /\ {final_scores[h][r].teamName : r \in 1..Len(final_scores[h])}
                  = UNION {{hfetched[h][k].ret[i].teamName :
                               i \in 1..Len(hfetched[h][k].ret)} :
                           k \in {j \in 1..Len(hfetched[h]) :
                                     ~C13_Failed(hfetched[h], j)}}
            /\ \A r \in 1..Len(final_scores[h]) :
                  final_scores[h][r].weighted_points
                      = C13_Total(hfetched[h], final_scores[h][r].teamName, 1, 0)

\* C13 witness: calculate_final_score has returned a ranking although the
\* source of one of its competitions failed
C13_Witness ==
    \E h \in Handlers :
        /\ hpc[h] = "respond"
        /\ \E k \in 1..Len(hfetched[h]) : hfetched[h][k].src = "error"
        /\ \E k \in 1..Len(hfetched[h]) : Len(hfetched[h][k].ret) >= 2
        /\ final_scores[h] # <<>>


\* a team's weighted positional points of one file added, row by row, to acc
RECURSIVE C14_FileTotal(_, _, _, _, _)
C14_FileTotal(data, weight, name, i, acc) ==
    IF i > Len(data) THEN acc
    ELSE C14_FileTotal(data, weight, name, i + 1,
                       IF data[i].teamName = name
                       THEN FAdd(acc, FMul(calculate_position_points(i - 1), weight))
                       ELSE acc)

\* a team's total over the competitions of the mapping, in its order
RECURSIVE C14_Total(_, _, _, _, _)
C14_Total(weights, files, name, k, acc) ==
    IF k > Len(weights) THEN acc
    ELSE C14_Total(weights, files, name, k + 1,
                   C14_FileTotal(files[weights[k].name].data, weights[k].weight,
                                 name, 1, acc))

\* the team names occurring in the snapshots of the mapping's competitions
C14_Names(weights, files) ==
    UNION {{files[weights[k].name].data[i].teamName :
               i \in 1..Len(files[weights[k].name].data)} : k \in 1..Len(weights)}

\* `final` is the ranking the claim describes for this mapping and files
C14_IsRanking(final, weights, files) ==
    /\ {final[r].teamName : r \in 1..Len(final)} = C14_Names(weights, files)
    /\ \A r, q \in 1..Len(final) : final[r].teamName = final[q].teamName => r = q
    /\ \A r \in 1..Len(final) :
          /\ final[r].weighted_points
                = C14_Total(weights, files, final[r].teamName, 1, 0)
          /\ final[r].rank = r
    /\ \A r \in 1..(Len(final) - 1) :
          final[r].weighted_points >= final[r + 1].weighted_points

\* C14: calculate_final_score returns one entry per distinct teamName of
\* the fetched snapshots, its total the sum over the competitions of
\* weight x positional score, the entries in non-increasing order of total
\* and ranked 1..n by position
C14_FinalRanking ==
    /\ apc \in {"again", "done"} => C14_IsRanking(aFinal, aWeights, aFiles)
    /\ apc = "done" => C14_IsRanking(aFinalPermuted, aPermuted, aFiles)

\* C14 witness: a ranking of two teams with different totals, from the
\* snapshots of more than one competition
C14_Witness ==
    /\ apc = "done"
    /\ Len(aFinal) = 2
    /\ aFinal[1].weighted_points > aFinal[2].weighted_points
    /\ Cardinality({k \in 1..Len(aWeights) :
                       aFiles[aWeights[k].name].data # <<>>}) >= 2


\* every competition of the mapping has an unreadable file
C15_AllFail(weights, files) ==
    \A k \in 1..Len(weights) : files[weights[k].name].src = "error"

\* C15: calculate_final_score returns the empty ranking when the weights
\* mapping is empty and when the fetch of every competition fails
C15_EmptyRanking ==
    /\ (apc \in {"again", "done"} /\ C15_AllFail(aWeights, aFiles)) => aFinal = <<>>
    /\ (apc = "done" /\ C15_AllFail(aPermuted, aFiles)) => aFinalPermuted = <<>>

\* C15 witness: a call with three competitions, all of which failed, has
\* returned
C15_Witness ==
    /\ apc = "done"
    /\ Len(aWeights) = 3
    /\ C15_AllFail(aWeights, aFiles)
    /\ aFinal = <<>>


\* C16: every response to a GET of /api/leaderboard has a non-5xx status
\* and a body whose data field is a list, with one entry per ranked team
\* and empty when calculate_final_score had no data, whatever the cache
\* holds and whichever fetches failed
C16_ResponseIsList ==
    \A h \in Handlers :
        response[h] # NoResponse =>
            /\ response[h].status < 500
            /\ "data" \in DOMAIN response[h].body
            /\ DOMAIN response[h].body.data = 1..Len(final_scores[h])
            /\ (\A k \in 1..Len(hfetched[h]) : hfetched[h][k].ret = <<>>)
                  => response[h].body.data = <<>>

\* C16 witness: a request served at cold start (nothing cached), every
\* fetch of which failed, has been answered
C16_Witness ==
    \E h \in Handlers :
        /\ response[h] # NoResponse
        /\ cached_leaderboards = <<>>
        /\ Len(hfetched[h]) = 2
        /\ \A k \in 1..Len(hfetched[h]) : hfetched[h][k].src = "error"


\* the place of a team's first row among the rows read, in reading order
C17_FirstSeen(rows, name) ==
    CHOOSE i \in 1..Len(rows) :
        rows[i].teamName = name /\ \A j \in 1..(i - 1) : rows[j].teamName # name

\* C17: in the ranking calculate_final_score returns, teams of equal total
\* stand in the order in which they were first encountered while the
\* competitions' snapshots were read
C17_TiesInEncounterOrder ==
    apc \in {"again", "done"} =>
        \A r, q \in 1..Len(aFinal) :
            (r < q /\ aFinal[r].weighted_points = aFinal[q].weighted_points) =>
                C17_FirstSeen(Collect(aWeights, aFiles), aFinal[r].teamName)
                    < C17_FirstSeen(Collect(aWeights, aFiles), aFinal[q].teamName)


\* the row at every index of the frame has the Scorer's value for that index
C18_Positional(df) ==
    \A i \in 1..Len(df) : df[i].score = calculate_position_points(i - 1)

\* between two frames, rows have the same score exactly when they stand at
\* the same position
C18_ScoreFollowsPosition(old_df, new_df) ==
    \A i \in 1..Len(old_df), j \in 1..Len(new_df) :
        (old_df[i].score = new_df[j].score) <=> (i = j)

\* C18: every snapshot fetch returns, for a CSV and for an API competition,
\* carries at index i the Scorer's value for position i whatever score the
\* source supplied; so do the cached snapshots, and between a cached
\* snapshot and the one fetched next a score differs exactly when the
\* position differs
C18_ScoresArePositional ==
    /\ \A e \in Executors :
          /\ fetch[e].pc = "ret" => C18_Positional(fetch[e].ret)
          /\ (fetch[e].pc \in {"write", "notify", "ret"}
                /\ fetch[e].comp \in DOMAIN cached_leaderboards)
                => C18_ScoreFollowsPosition(cached_leaderboards[fetch[e].comp],
                                            fetch[e].df)
    /\ \A c \in DOMAIN cached_leaderboards :
          C18_Positional(cached_leaderboards[c])

\* C18 witness: fetches of the CSV and of the API competition have returned
\* snapshots of two rows, the API one detected against a cached snapshot
C18_Witness ==
    \E h \in Handlers :
        /\ fetch[h].pc = "ret"
        /\ Len(fetch[h].ret) >= 2
        /\ fetch[h].comp \notin csv_challenges
        /\ fetch[h].changes # <<>>
        /\ \E k \in 1..Len(hfetched[h]) :
              /\ hfetched[h][k].name \in csv_challenges
              /\ Len(hfetched[h][k].ret) >= 2


\* C19: a polling cycle, begun while the flag is set, fetches the
\* competitions of the mapping configured at its start one after the other
\* and ends in the sleep, only after the last of them has been fetched;
\* whether a fetch failed or not, the next competition follows it, and the
\* loop terminates only at its test of the flag
C19_CycleFetchesEveryCompetition ==
    [][\A t \in ThreadIds :
          /\ (tpc[t] = "check" /\ tpc'[t] \in {"iter", "sleep"}) =>
                /\ monitoring
                /\ titer'[t] = svc_competitions
                /\ ti'[t] = 1
                /\ tpc'[t] = "sleep" => svc_competitions = <<>>
          /\ (tpc[t] = "iter" /\ fetch[t].pc = "idle" /\ fetch'[t].pc # "idle") =>
                fetch'[t].comp = titer[t][ti[t]].name
          /\ (tpc[t] = "iter" /\ fetch[t].pc = "ret" /\ fetch'[t].pc = "idle") =>
                IF ti[t] < Len(titer[t])
                THEN tpc'[t] = "iter" /\ ti'[t] = ti[t] + 1 /\ titer'[t] = titer[t]
                ELSE tpc'[t] = "sleep"
          /\ (tpc[t] = "iter" /\ tpc'[t] # "iter") =>
                /\ tpc'[t] = "sleep"
                /\ ti[t] = Len(titer[t])
                /\ fetch[t].pc = "ret"
          /\ (tpc[t] = "iter" /\ fetch[t].pc # "ret") =>
                (ti'[t] = ti[t] /\ titer'[t] = titer[t])
          /\ (tpc[t] # "dead" /\ tpc'[t] = "dead") =>
                (tpc[t] = "check" /\ ~monitoring)]_vars

\* C19 witness: the fetch of the first of two competitions of a cycle has
\* failed and returned to the loop
C19_Witness ==
    \E t \in ThreadIds :
        /\ tpc[t] = "iter"
        /\ ti[t] = 1
        /\ Len(titer[t]) = 2
        /\ fetch[t].pc = "ret"
        /\ fetch[t].src = "error"
        /\ monitoring


\* C20: whatever the interleaving of the poller's and the request handler's
\* fetches of a competition, the read of the previous snapshot, the
\* detection and the write of one fetch are not interleaved with another's:
\* every write of the cache replaces exactly the snapshot its fetch read as
\* old_df (no entry at all, for a first fetch)
C20_WriteReplacesWhatWasRead ==
    [][\A e \in Executors :
          (fetch[e].pc = "write" /\ fetch'[e].pc = "notify") =>
              IF fetch[e].first
              THEN fetch[e].comp \notin DOMAIN cached_leaderboards
              ELSE /\ fetch[e].comp \in DOMAIN cached_leaderboards
                   /\ cached_leaderboards[fetch[e].comp] = fetch[e].old_df]_vars


\* thread e's call of fetch_leaderboard_data for an API-backed competition
\* obtains a non-empty leaderboard in this step
C21_SuccessfulFetch(e) ==
    /\ fetch[e].pc = "idle"
    /\ fetch'[e].pc # "idle"
    /\ fetch'[e].comp \notin csv_challenges
    /\ fetch'[e].src = "ok"
    /\ fetch'[e].df # <<>>

\* C21: a successful non-empty fetch of an API-backed competition that
\* finds no cached snapshot (the first one) stores its snapshot and notifies
\* once, with no change set; one that finds a cached snapshot (a later one)
\* stores and notifies if and only if the changes detected against that
\* snapshot are non-empty; the cache is written before any listener is
\* invoked, and nothing is notified otherwise
C21_NotifyOnFirstOrChange ==
    [][\A e \in Executors :
          /\ C21_SuccessfulFetch(e) =>
                IF fetch'[e].comp \notin DOMAIN cached_leaderboards
                THEN /\ fetch'[e].pc = "write"
                     /\ fetch'[e].first
                     /\ fetch'[e].changes = <<>>
                ELSE /\ ~fetch'[e].first
                     /\ fetch'[e].changes
                           = detect_changes(cached_leaderboards[fetch'[e].comp],
                                            fetch'[e].df)
                     /\ fetch'[e].pc = (IF fetch'[e].changes # <<>>
                                        THEN "write" ELSE "ret")
          /\ (fetch[e].pc = "idle" /\ fetch'[e].pc = "write") => C21_SuccessfulFetch(e)
          /\ (fetch[e].pc = "write" /\ fetch'[e].pc # "write") =>
                /\ fetch'[e].pc = "notify"
                /\ fetch[e].invoked = <<>>
                /\ fetch'[e].invoked = <<>>
                /\ fetch[e].comp \in DOMAIN cached_leaderboards'
                /\ cached_leaderboards'[fetch[e].comp] = fetch[e].df
          /\ (fetch[e].pc # "notify" /\ fetch'[e].pc = "notify") =>
                fetch[e].pc = "write"
          /\ Len(fetch'[e].invoked) > Len(fetch[e].invoked) =>
                /\ fetch[e].pc = "notify"
                /\ Len(fetch'[e].invoked) = Len(fetch[e].invoked) + 1
                /\ fetch[e].comp \in DOMAIN cached_leaderboards
                /\ fetch[e].first <=> fetch[e].changes = <<>>
          /\ fetch[e].pc # "write" =>
                cached_leaderboards' = cached_leaderboards
                  \/ \E o \in Executors : fetch[o].pc = "write" /\ fetch'[o].pc # "write"]_vars

\* C21 witness: a later fetch that detected changes against the cached
\* snapshot has stored its snapshot and invoked a listener
C21_Witness ==
    \E e \in Executors :
        /\ fetch[e].pc = "ret"
        /\ ~fetch[e].first
        /\ fetch[e].old_df # <<>>
        /\ fetch[e].changes # <<>>
        /\ fetch[e].invoked # <<>>
        /\ ~fetch[e].raised
        /\ cached_leaderboards[fetch[e].comp] = fetch[e].df


\* thread e's frame is a call of fetch_leaderboard_data for a CSV challenge
C22_CsvFetch(e) == fetch[e].pc # "idle" /\ fetch[e].comp \in csv_challenges

\* C22: a fetch of a CSV challenge returns in the step that calls it, whether
\* the file was read or not, with the cache as it was and no listener
\* invoked, and the cache never holds an entry for a CSV challenge
C22_CsvLeavesCacheAlone ==
    [][/\ DOMAIN cached_leaderboards' \cap csv_challenges = {}
       /\ \A e \in Executors :
             (fetch[e].pc = "idle" /\ C22_CsvFetch(e)') =>
                /\ fetch'[e].pc = "ret"
                /\ fetch'[e].invoked = <<>>
                /\ cached_leaderboards' = cached_leaderboards
                /\ observers' = observers]_vars

\* C22 witness: with a listener attached and a snapshot in the cache, a CSV
\* challenge has been fetched and its rows returned
C22_Witness ==
    \E e \in Executors :
        /\ C22_CsvFetch(e)
        /\ fetch[e].pc = "ret"
        /\ fetch[e].src = "ok"
        /\ fetch[e].ret # <<>>
        /\ observers # <<>>
        /\ cached_leaderboards # <<>>

====
